---- MODULE Spec2Model ----
(***************************************************************************)
(* Learning_ETL: the read API (api.py), the file merger and cleaner        *)
(* (merger_csv.py) and the store uploader (upload_csv.py).                 *)
(*                                                                         *)
(* The three programs share no runtime state, so each has its own          *)
(* specification over its own variables: SpecApi, SpecUpload and           *)
(* SpecMerge; SpecClean runs clean_data twice on one table.  Under each    *)
(* specification the other variables stay at their idle values.            *)
(***************************************************************************)
EXTENDS Integers, Sequences, FiniteSets, TLC

VARIABLES
    \* ---- api.py
    AUTH_TOKEN,     \* the configured secret of each service instance
    pages,          \* the remote table, as the pages a scan returns it in
    request,        \* the request being served (the same one at every instance)
    apiPc,          \* each instance's position in its handler
    items,          \* get_all_data: the items collected so far
    lastKey,        \* get_all_data: LastEvaluatedKey of the last scan response
    storeCalls,     \* the scan / get_item calls an instance made for the request
    response,       \* the response an instance returned
    \* ---- upload_csv.py
    file,           \* the input file: extension, columns, rows
    remoteExists,   \* whether the remote table exists in the store
    existedAtCheck, \* whether it existed when table_exists looked (None: not yet)
    selfTable,      \* self.table: TRUE for a table handle, FALSE for None
    upPc,           \* the run's position in the code
    trace,          \* the states of the run's state machine entered so far
    rowIdx,         \* the row the upload loop is at
    uploaded_count, \* upload_file's counter
    skipped,        \* the indices of the rows logged as skipped
    buffer,         \* the batch writer's unsent items (row indices)
    submitted,      \* the row indices handed to batch.put_item, in order
    written,        \* the row indices the store accepted
    storeReqs,      \* the requests the run sent to the remote services
    reported,       \* the uploaded count printed at the end (None: nothing)
    \* ---- merger_csv.py, clean_data run twice
    cIn,            \* the table given to the Cleaner
    cOnce,          \* clean_data(cIn)
    cTwice,         \* clean_data(clean_data(cIn))
    cPc,            \* how many times the Cleaner has run
    \* ---- merger_csv.py, merge_and_clean_files
    all_files,      \* os.listdir(input_dir)
    file_pattern,   \* the name pattern, or None
    file_type,      \* 'csv', 'excel' or 'both'
    custom_transforms, \* the transforms to apply, in order (None is the empty list)
    skip_cleaning,  \* whether clean_data is skipped
    output_file,    \* the path to write
    mPc,            \* the call's position in the code
    dfs,            \* the loaded tables, each with its source
    df,             \* the current table
    merged,         \* the table as concatenated, before cleaning
    rowSrc,         \* for each row of merged, the file, sheet and row it came from
    cleaned,        \* the table the transform loop started from
    applied,        \* the transforms called so far
    outFile,        \* the output file's content (None: no such file)
    outFileBefore,  \* the output file's content when the call began
    mError          \* the exception the call raised (None: none)

apiVars == <<AUTH_TOKEN, pages, request, apiPc, items, lastKey, storeCalls, response>>

upVars == <<file, remoteExists, existedAtCheck, selfTable, upPc, trace, rowIdx,
            uploaded_count, skipped, buffer, submitted, written, storeReqs, reported>>

cleanVars == <<cIn, cOnce, cTwice, cPc>>

mergeVars == <<all_files, file_pattern, file_type, custom_transforms, skip_cleaning,
               output_file, mPc, dfs, df, merged, rowSrc, cleaned, applied, outFile,
               outFileBefore, mError>>

vars == <<apiVars, upVars, cleanVars, mergeVars>>

notApiVars == <<upVars, cleanVars, mergeVars>>

notUpVars == <<apiVars, cleanVars, mergeVars>>

notCleanVars == <<apiVars, upVars, mergeVars>>

notMergeVars == <<apiVars, upVars, cleanVars>>

(***************************************************************************)
(* Bounds                                                                  *)
(***************************************************************************)
MaxPages == 2
MaxPageItems == 2
MaxRows == 2
MaxCleanRows == 2
MaxFiles == 3
MaxTransforms == 2

(***************************************************************************)
(* api.py                                                                  *)
(***************************************************************************)
\* Two instances of the service: they may differ in the secret only.
Instances == {1, 2}

Secrets == {"s1", "s2"}

\* An absent value (Python's None, a header that was not sent) is the empty
\* sequence, a present one the one-element sequence.
None == <<>>

Some(v) == <<v>>

\* f'Bearer {AUTH_TOKEN}'
Bearer(secret) == "Bearer " \o secret

\* The Authorization headers a client may send.
AuthHeaders ==
    {None, Some(""), Some("s1"), Some("bearer s1")}
        \cup {Some(Bearer(s)) : s \in Secrets}

\* The scan pages of the table: page sizes, the records numbered in scan order.
RECURSIVE SumSeq(_)
SumSeq(s) == IF s = <<>> THEN 0 ELSE Head(s) + SumSeq(Tail(s))

PageSizes == UNION {[1..n -> 0..MaxPageItems] : n \in 1..MaxPages}

PagesOf(sizes) ==
    [p \in 1..Len(sizes) |->
        [k \in 1..sizes[p] |-> SumSeq(SubSeq(sizes, 1, p - 1)) + k]]

RECURSIVE Flatten(_)
Flatten(ps) == IF ps = <<>> THEN <<>> ELSE Head(ps) \o Flatten(Tail(ps))

\* The EmailId keys a client may ask for: every stored one and one that is not.
Keys == 1..(MaxPages * MaxPageItems + 1)

Routes ==
    {[route |-> "debug", key |-> 0], [route |-> "all", key |-> 0]}
        \cup {[route |-> "one", key |-> k] : k \in Keys}

\* table.scan(ExclusiveStartKey=k): the page after page k, with a
\* LastEvaluatedKey unless it is the last page.  scan() starts at page 1.
ScanPage(start) ==
    LET p == IF start = None THEN 1 ELSE start[1] + 1
    IN  [Items |-> pages[p],
         LastEvaluatedKey |-> IF p < Len(pages) THEN Some(p) ELSE None]

\* table.get_item(Key={'EmailId': k})
GetItem(k) ==
    IF \E i \in 1..Len(Flatten(pages)) : Flatten(pages)[i] = k
        THEN Some(k) ELSE None

\* require_auth's test: not token or token != f'Bearer {AUTH_TOKEN}'
AuthRejectsLoose(token, secret) ==
    IF token = None THEN TRUE ELSE token[1] = ""

AuthRejects(token, secret) ==
    IF token = None THEN TRUE
    ELSE IF token[1] = "" THEN TRUE
    ELSE token[1] # Bearer(secret)

NoResponse == [status |-> 0, kind |-> "none"]

Unauthorized == [status |-> 401, kind |-> "error",
                 error |-> "Invalid or missing auth token"]

\* A client sends one request; every instance receives the same one.
Receive ==
    /\ \A i \in Instances : apiPc[i] \in {"idle", "done"}
    /\ \E r \in Routes, h \in AuthHeaders :
          request' = Some([route |-> r.route, key |-> r.key, auth |-> h])
    /\ apiPc' = [i \in Instances |-> "recv"]
    /\ items' = [i \in Instances |-> <<>>]
    /\ lastKey' = [i \in Instances |-> None]
    /\ storeCalls' = [i \in Instances |-> <<>>]
    /\ response' = [i \in Instances |-> NoResponse]
    /\ UNCHANGED <<AUTH_TOKEN, pages, notApiVars>>

Respond(i, r) ==
    /\ response' = [response EXCEPT ![i] = r]
    /\ apiPc' = [apiPc EXCEPT ![i] = "done"]

\* debug_auth: not behind require_auth.
debug_auth(i) ==
    /\ apiPc[i] = "recv"
    /\ request[1].route = "debug"
    /\ LET token == request[1].auth
           expected == Bearer(AUTH_TOKEN[i])
       IN  Respond(i, [status |-> 200, kind |-> "debug",
                       received_token |-> token,
                       expected_token |-> expected,
                       auth_token_env |-> AUTH_TOKEN[i],
                       match |-> (token = Some(expected))])
    /\ UNCHANGED <<AUTH_TOKEN, pages, request, items, lastKey, storeCalls, notApiVars>>

\* require_auth.decorated, the rejecting branch.
require_auth_reject(i) ==
    /\ apiPc[i] = "recv"
    /\ request[1].route \in {"all", "one"}
    /\ AuthRejects(request[1].auth, AUTH_TOKEN[i])
    /\ Respond(i, Unauthorized)
    /\ UNCHANGED <<AUTH_TOKEN, pages, request, items, lastKey, storeCalls, notApiVars>>

\* require_auth.decorated, the accepting branch: the wrapped handler runs.
require_auth_pass(i) ==
    /\ apiPc[i] = "recv"
    /\ request[1].route \in {"all", "one"}
    /\ ~AuthRejects(request[1].auth, AUTH_TOKEN[i])
    /\ apiPc' = [apiPc EXCEPT ![i] = request[1].route]
    /\ UNCHANGED <<AUTH_TOKEN, pages, request, items, lastKey, storeCalls, response, notApiVars>>

\* The ExclusiveStartKey of the loop's scan: the previous response's key.
NextStartKey(i) == lastKey[i]

\* How a scan response's items join the collected ones: items.extend(...)
ExtendFront(collected, page) == page \o collected

Extend(collected, page) == collected \o page

\* get_all_data: response = table.scan(); items = response['Items']
get_all_scan_first(i) ==
    /\ apiPc[i] = "all"
    /\ storeCalls[i] = <<>>
    /\ LET resp == ScanPage(None)
       IN  /\ items' = [items EXCEPT ![i] = resp.Items]
           /\ lastKey' = [lastKey EXCEPT ![i] = resp.LastEvaluatedKey]
    /\ storeCalls' = [storeCalls EXCEPT ![i] = <<[op |-> "scan", start |-> None]>>]
    /\ UNCHANGED <<AUTH_TOKEN, pages, request, apiPc, response, notApiVars>>

\* get_all_data: while 'LastEvaluatedKey' in response: scan again, extend.
get_all_scan_next(i) ==
    /\ apiPc[i] = "all"
    /\ storeCalls[i] # <<>>
    /\ lastKey[i] # None
    /\ LET start == NextStartKey(i)
           resp == ScanPage(start)
       IN  /\ items' = [items EXCEPT ![i] = Extend(items[i], resp.Items)]
           /\ lastKey' = [lastKey EXCEPT ![i] = resp.LastEvaluatedKey]
           /\ storeCalls' = [storeCalls EXCEPT ![i] =
                                Append(@, [op |-> "scan", start |-> start])]
    /\ UNCHANGED <<AUTH_TOKEN, pages, request, apiPc, response, notApiVars>>

\* get_all_data: the loop ended, the 200 response.
get_all_respond(i) ==
    /\ apiPc[i] = "all"
    /\ storeCalls[i] # <<>>
    /\ lastKey[i] = None
    /\ Respond(i, [status |-> 200, kind |-> "all", success |-> TRUE,
                   count |-> Len(items[i]), data |-> items[i]])
    /\ UNCHANGED <<AUTH_TOKEN, pages, request, items, lastKey, storeCalls, notApiVars>>

\* get_all_data: a scan raised; except Exception: 500 with str(e).
get_all_fail(i) ==
    /\ apiPc[i] = "all"
    /\ storeCalls[i] = <<>> \/ lastKey[i] # None
    /\ storeCalls' = [storeCalls EXCEPT ![i] =
            Append(@, [op |-> "scan",
                       start |-> IF storeCalls[i] = <<>> THEN None ELSE NextStartKey(i)])]
    /\ Respond(i, [status |-> 500, kind |-> "error", error |-> "store failure"])
    /\ UNCHANGED <<AUTH_TOKEN, pages, request, items, lastKey, notApiVars>>

\* get_data_by_email: get_item, then 200 with the item or 404.
get_data_by_email(i) ==
    /\ apiPc[i] = "one"
    /\ storeCalls' = [storeCalls EXCEPT ![i] =
            <<[op |-> "get_item", start |-> Some(request[1].key)]>>]
    /\ \/ LET got == GetItem(request[1].key)
          IN  IF got # None
                THEN Respond(i, [status |-> 200, kind |-> "one", success |-> TRUE,
                                 data |-> got[1]])
                ELSE Respond(i, [status |-> 404, kind |-> "error",
                                 error |-> "Record not found"])
       \/ Respond(i, [status |-> 500, kind |-> "error", error |-> "store failure"])
    /\ UNCHANGED <<AUTH_TOKEN, pages, request, items, lastKey, notApiVars>>

NextApi ==
    \/ Receive
    \/ \E i \in Instances : debug_auth(i)
    \/ \E i \in Instances : require_auth_reject(i)
    \/ \E i \in Instances : require_auth_pass(i)
    \/ \E i \in Instances : get_all_scan_first(i)
    \/ \E i \in Instances : get_all_scan_next(i)
    \/ \E i \in Instances : get_all_respond(i)
    \/ \E i \in Instances : get_all_fail(i)
    \/ \E i \in Instances : get_data_by_email(i)

(***************************************************************************)
(* upload_csv.py                                                           *)
(***************************************************************************)
\* config['dynamodb']['primary_key_column']
primary_key_column == "EmailId"

\* Cells as pandas loads them: NaN for an empty cell, text, integers, floats.
NaN == [t |-> "nan", v |-> 0]

NoneCell == [t |-> "none", v |-> 0]

KeyCells == {NaN, [t |-> "str", v |-> 1], [t |-> "int", v |-> 1]}

ValCells == {NaN, [t |-> "float", v |-> 15]}

\* The rows of a file with the given columns.
RowsOver(cols) ==
    LET Row == {r \in [cols -> KeyCells \cup ValCells] :
                    /\ primary_key_column \in cols => r[primary_key_column] \in KeyCells
                    /\ r["val"] \in ValCells}
    IN  UNION {[1..n -> Row] : n \in 0..MaxRows}

Files ==
    UNION {{[ext |-> e, columns |-> cols, rows |-> rs] : rs \in RowsOver(cols)} :
              e \in {"csv", "xlsx", "txt"},
              cols \in {{primary_key_column, "val"}, {"val"}}}

\* The state the run's state machine is in, and a request stamped with it and
\* with whether the remote table exists when the request is sent.
CurState == IF trace = <<>> THEN "NEW" ELSE trace[Len(trace)]

Req(op) ==
    [op |-> op, state |-> CurState, tableExists |-> remoteExists, key_type |-> "-"]

Enter(st) == trace' = Append(trace, st)

\* except Exception: print, sys.exit(1)
Fail ==
    /\ upPc' = "error"
    /\ Enter("ERROR")

\* pd.isna(value) -> None; float -> Decimal(str(value)); the rest unchanged.
convert_to_dynamodb_format(item) ==
    [k \in DOMAIN item |->
        IF item[k].t = "nan" THEN NoneCell
        ELSE IF item[k].t = "float" THEN [t |-> "decimal", v |-> item[k].v]
        ELSE item[k]]

\* upload_file's test for a row to skip (line 132).
SkipRowNever(item) == FALSE

SkipRow(item) ==
    IF primary_key_column \notin DOMAIN item THEN TRUE
    ELSE item[primary_key_column] = NoneCell

\* table_exists: load() succeeded; any exception counts as "does not exist".
table_exists_assumed(callOk) == TRUE

table_exists(callOk) == remoteExists /\ callOk

\* create_table: the key type from the first row's key value.
KeyType(rows) ==
    IF rows[1][primary_key_column].t \in {"int", "float", "nan"} THEN "N" ELSE "S"

\* __init__: validate_aws_connection; a failure exits the process.
validate_aws_connection ==
    /\ upPc = "connect"
    /\ storeReqs' = Append(storeReqs, Req("get_caller_identity"))
    /\ \/ upPc' = "ensure" /\ UNCHANGED trace
       \/ Fail
    /\ UNCHANGED <<file, remoteExists, existedAtCheck, selfTable, rowIdx, uploaded_count,
                   skipped, buffer, submitted, written, reported, notUpVars>>

\* __init__: self.table = self.ensure_table_exists(); then main calls upload_file.
ensure_table_exists ==
    /\ upPc = "ensure"
    /\ storeReqs' = Append(storeReqs, Req("describe_table"))
    /\ existedAtCheck' = Some(remoteExists)
    /\ \E callOk \in BOOLEAN : selfTable' = table_exists(callOk)
    /\ upPc' = "load"
    /\ Enter("START")
    /\ UNCHANGED <<file, remoteExists, rowIdx, uploaded_count, skipped, buffer,
                   submitted, written, reported, notUpVars>>

\* upload_file: read the file by its extension.
load_file ==
    /\ upPc = "load"
    /\ IF file.ext \in {"csv", "xlsx", "xls"}
         THEN \/ upPc' = "validate" /\ UNCHANGED trace
              \/ Fail
         ELSE Fail
    /\ UNCHANGED <<file, remoteExists, existedAtCheck, selfTable, rowIdx, uploaded_count,
                   skipped, buffer, submitted, written, storeReqs, reported, notUpVars>>

\* upload_file: the key column must be one of df.columns.
validate_key_column ==
    /\ upPc = "validate"
    /\ IF primary_key_column \in file.columns
         THEN upPc' = "table" /\ Enter("VALIDATED")
         ELSE Fail
    /\ UNCHANGED <<file, remoteExists, existedAtCheck, selfTable, rowIdx, uploaded_count,
                   skipped, buffer, submitted, written, storeReqs, reported, notUpVars>>

\* upload_file: self.table is not None, nothing to create.
table_present ==
    /\ upPc = "table"
    /\ selfTable
    /\ upPc' = "begin"
    /\ Enter("TABLE_READY")
    /\ UNCHANGED <<file, remoteExists, existedAtCheck, selfTable, rowIdx, uploaded_count,
                   skipped, buffer, submitted, written, storeReqs, reported, notUpVars>>

\* create_table: the sample value (IndexError on a file without rows), then the
\* create-table request, which the store accepts only for an absent table.
create_table ==
    /\ upPc = "table"
    /\ ~selfTable
    /\ IF file.rows = <<>>
         THEN Fail /\ UNCHANGED <<storeReqs, remoteExists>>
         ELSE /\ storeReqs' = Append(storeReqs,
                    [Req("create_table") EXCEPT !.key_type = KeyType(file.rows)])
              /\ \/ /\ ~remoteExists
                    /\ remoteExists' = TRUE
                    /\ upPc' = "wait"
                    /\ UNCHANGED trace
                 \/ Fail /\ UNCHANGED remoteExists
    /\ UNCHANGED <<file, existedAtCheck, selfTable, rowIdx, uploaded_count,
                   skipped, buffer, submitted, written, reported, notUpVars>>

\* create_table: table.wait_until_exists()
wait_until_exists ==
    /\ upPc = "wait"
    /\ storeReqs' = Append(storeReqs, Req("wait_until_exists"))
    /\ \/ selfTable' = TRUE /\ upPc' = "begin" /\ Enter("TABLE_READY")
       \/ Fail /\ UNCHANGED selfTable
    /\ UNCHANGED <<file, remoteExists, existedAtCheck, rowIdx, uploaded_count,
                   skipped, buffer, submitted, written, reported, notUpVars>>

\* upload_file: transform_data (the identity), uploaded_count = 0, the batch writer.
begin_upload ==
    /\ upPc = "begin"
    /\ uploaded_count' = 0
    /\ rowIdx' = 1
    /\ upPc' = "rows"
    /\ Enter("UPLOADING")
    /\ UNCHANGED <<file, remoteExists, existedAtCheck, selfTable, skipped, buffer,
                   submitted, written, storeReqs, reported, notUpVars>>

\* One iteration of the row loop.  batch.put_item buffers the item and may send
\* the buffer to the store; a rejected send raises.
upload_row ==
    /\ upPc = "rows"
    /\ rowIdx <= Len(file.rows)
    /\ LET item == convert_to_dynamodb_format(file.rows[rowIdx])
       IN  IF SkipRow(item)
             THEN /\ skipped' = Append(skipped, rowIdx)
                  /\ rowIdx' = rowIdx + 1
                  /\ UNCHANGED <<upPc, trace, uploaded_count, buffer, submitted,
                                 written, storeReqs>>
             ELSE /\ submitted' = Append(submitted, rowIdx)
                  /\ UNCHANGED skipped
                  /\ \/ /\ buffer' = Append(buffer, rowIdx)
                        /\ uploaded_count' = uploaded_count + 1
                        /\ rowIdx' = rowIdx + 1
                        /\ UNCHANGED <<upPc, trace, written, storeReqs>>
                     \/ /\ storeReqs' = Append(storeReqs, Req("batch_write_item"))
                        /\ buffer' = <<>>
                        /\ \/ /\ remoteExists
                              /\ written' = written \o Append(buffer, rowIdx)
                              /\ uploaded_count' = uploaded_count + 1
                              /\ rowIdx' = rowIdx + 1
                              /\ UNCHANGED <<upPc, trace>>
                           \/ /\ Fail
                              /\ UNCHANGED <<written, uploaded_count, rowIdx>>
    /\ UNCHANGED <<file, remoteExists, existedAtCheck, selfTable, reported, notUpVars>>

\* The loop ended: the batch writer sends what is left, then the count is printed.
finish_upload ==
    /\ upPc = "rows"
    /\ rowIdx > Len(file.rows)
    /\ IF buffer = <<>>
         THEN /\ upPc' = "done"
              /\ Enter("DONE")
              /\ reported' = Some(uploaded_count)
              /\ UNCHANGED <<buffer, written, storeReqs>>
         ELSE /\ storeReqs' = Append(storeReqs, Req("batch_write_item"))
              /\ buffer' = <<>>
              /\ \/ /\ remoteExists
                    /\ written' = written \o buffer
                    /\ upPc' = "done"
                    /\ Enter("DONE")
                    /\ reported' = Some(uploaded_count)
                 \/ /\ Fail
                    /\ UNCHANGED <<written, reported>>
    /\ UNCHANGED <<file, remoteExists, existedAtCheck, selfTable, rowIdx, uploaded_count,
                   skipped, submitted, notUpVars>>

NextUpload ==
    \/ validate_aws_connection
    \/ ensure_table_exists
    \/ load_file
    \/ validate_key_column
    \/ table_present
    \/ create_table
    \/ wait_until_exists
    \/ begin_upload
    \/ upload_row
    \/ finish_upload

(***************************************************************************)
(* merger_csv.py: tables                                                   *)
(***************************************************************************)
Range(s) == {s[k] : k \in 1..Len(s)}

\* The elements of s at the positions in keep, in order.
Pick(s, keep) ==
    LET F[k \in 0..Len(s)] ==
            IF k = 0 THEN <<>>
            ELSE IF k \in keep THEN Append(F[k - 1], s[k]) ELSE F[k - 1]
    IN  F[Len(s)]

\* Cells of a DataFrame: NaN (a missing value as read or as filled by concat),
\* pd.NA, text (a sequence of characters) and numbers (their digits).
NAN == [t |-> "nan", v |-> <<>>]

NA == [t |-> "NA", v |-> <<>>]

Text(s) == [t |-> "str", v |-> s]

Num(s) == [t |-> "num", v |-> s]

isna(c) == c.t \in {"nan", "NA"}

\* A DataFrame: its columns in order, their dtypes, its rows in order.
Table(cols, dtype, rows) == [cols |-> cols, dtype |-> dtype, rows |-> rows]

EmptyTable == Table(<<>>, <<>>, <<>>)

\* The rows at the positions in keep.
TakeRows(tbl, keep) == Table(tbl.cols, tbl.dtype, Pick(tbl.rows, keep))

\* The columns at the positions in keep.
TakeCols(tbl, keep) ==
    LET cols == Pick(tbl.cols, keep)
    IN  Table(cols,
              [c \in Range(cols) |-> tbl.dtype[c]],
              [k \in 1..Len(tbl.rows) |-> [c \in Range(cols) |-> tbl.rows[k][c]]])

\* Series.astype(str): str(nan) = 'nan', str(pd.NA) = '<NA>'.
AsStr(c) ==
    IF c.t = "nan" THEN <<"n", "a", "n">>
    ELSE IF c.t = "NA" THEN <<"<", "N", "A", ">">>
    ELSE c.v

Whitespace == {" "}

RECURSIVE LStrip(_)
LStrip(s) ==
    IF s = <<>> THEN s
    ELSE IF Head(s) \in Whitespace THEN LStrip(Tail(s)) ELSE s

RECURSIVE RStrip(_)
RStrip(s) ==
    IF s = <<>> THEN s
    ELSE IF s[Len(s)] \in Whitespace THEN RStrip(SubSeq(s, 1, Len(s) - 1)) ELSE s

\* str.strip()
Strip(s) == RStrip(LStrip(s))

\* replace(['', 'nan', 'None', 'null'], pd.NA)
NullLiterals ==
    {<<>>, <<"n", "a", "n">>, <<"N", "o", "n", "e">>, <<"n", "u", "l", "l">>}

\* One cell of a text column through clean_data's last step.
CleanText(c) ==
    LET s == Strip(AsStr(c))
    IN  IF s \in NullLiterals THEN NA ELSE Text(s)

NonNull(tbl, k) == {c \in Range(tbl.cols) : ~isna(tbl.rows[k][c])}

\* df.dropna(how='all')
dropna_rows_all(tbl) ==
    TakeRows(tbl, {k \in 1..Len(tbl.rows) : NonNull(tbl, k) # {}})

\* df.dropna(axis=1, how='all')
dropna_cols_all(tbl) ==
    TakeCols(tbl, {j \in 1..Len(tbl.cols) :
                     \E k \in 1..Len(tbl.rows) : ~isna(tbl.rows[k][tbl.cols[j]])})

\* Two rows are duplicates: equal cell by cell, missing values equal to each other.
SameRow(tbl, j, k) ==
    \A c \in Range(tbl.cols) :
        IF isna(tbl.rows[j][c]) THEN isna(tbl.rows[k][c])
        ELSE tbl.rows[j][c] = tbl.rows[k][c]

\* df.drop_duplicates(): the first of each group of duplicates is kept.
drop_duplicates(tbl) ==
    TakeRows(tbl, {k \in 1..Len(tbl.rows) : ~\E j \in 1..(k - 1) : SameRow(tbl, j, k)})

\* thresh = int(0.3 * len(df.columns))
thresh(tbl) == (3 * Len(tbl.cols)) \div 10

\* df.dropna(thresh=thresh): rows with at least thresh non-missing cells stay.
dropna_thresh(tbl) ==
    TakeRows(tbl, {k \in 1..Len(tbl.rows) : Cardinality(NonNull(tbl, k)) >= thresh(tbl)})

\* for col in df.select_dtypes(include=['object']).columns: strip and replace.
clean_text_columns(tbl) ==
    Table(tbl.cols, tbl.dtype,
          [k \in 1..Len(tbl.rows) |->
              [c \in Range(tbl.cols) |->
                  IF tbl.dtype[c] = "object" THEN CleanText(tbl.rows[k][c])
                  ELSE tbl.rows[k][c]]])

clean_data(tbl) ==
    clean_text_columns(
        dropna_thresh(
            drop_duplicates(
                dropna_cols_all(
                    dropna_rows_all(tbl)))))

(***************************************************************************)
(* merger_csv.py: the cleaner run twice on its own output                  *)
(***************************************************************************)
ObjectCells == {NAN, Text(<<"a">>), Text(<<" ">>), Text(<<" ", "a">>)}

FloatCells == {NAN, Num(<<"1">>)}

CellsOf(dt) == IF dt = "object" THEN ObjectCells ELSE FloatCells

\* Tables of up to two columns, of either dtype, with every cell free.
NarrowColumns == <<"c1", "c2">>

NarrowTables ==
    UNION {
        UNION {
            UNION {
                {Table(SubSeq(NarrowColumns, 1, n), dt, rows) :
                    rows \in [1..m -> {r \in [Range(SubSeq(NarrowColumns, 1, n)) ->
                                                ObjectCells \cup FloatCells] :
                                        \A c \in DOMAIN r : r[c] \in CellsOf(dt[c])}]} :
                m \in 0..MaxCleanRows} :
            dt \in [Range(SubSeq(NarrowColumns, 1, n)) -> {"object", "float64"}]} :
        n \in 0..Len(NarrowColumns)}

\* Tables wide enough for a completeness threshold of 2 (seven numeric columns):
\* a row is filled in its first column only, in all but the first, or fully.
WideColumns == <<"w1", "w2", "w3", "w4", "w5", "w6", "w7">>

WideRows ==
    {[c \in Range(WideColumns) |-> IF c = "w1" THEN Num(<<"1">>) ELSE NAN],
     [c \in Range(WideColumns) |-> IF c = "w1" THEN NAN ELSE Num(<<"1">>)],
     [c \in Range(WideColumns) |-> Num(<<"1">>)]}

WideTables ==
    UNION {{Table(WideColumns, [c \in Range(WideColumns) |-> "float64"], rows) :
               rows \in [1..m -> WideRows]} : m \in 1..MaxCleanRows}

\* The Cleaner applied to a merged table.
clean_once ==
    /\ cPc = "in"
    /\ cOnce' = clean_data(cIn)
    /\ cPc' = "once"
    /\ UNCHANGED <<cIn, cTwice, notCleanVars>>

\* The Cleaner applied to its own output.
clean_again ==
    /\ cPc = "once"
    /\ cTwice' = clean_data(cOnce)
    /\ cPc' = "twice"
    /\ UNCHANGED <<cIn, cOnce, notCleanVars>>

NextClean ==
    \/ clean_once
    \/ clean_again

(***************************************************************************)
(* merger_csv.py: merge_and_clean_files                                    *)
(***************************************************************************)
\* str.lower() on the names and patterns that occur.
Lower(s) ==
    CASE s = "C" -> "c"
      [] s = "CSV" -> "csv"
      [] OTHER -> s

\* The files a directory may hold.  A delimited file holds one table, a workbook
\* one table per sheet, in workbook order; a sheet may be empty.
FileA ==
    [name |-> [stem |-> "a", ext |-> "csv"],
     tables |-> <<Table(<<"id", "name">>, [c \in {"id", "name"} |->
                            IF c = "id" THEN "float64" ELSE "object"],
                        <<[id |-> Num(<<"1">>), name |-> Text(<<"a">>)],
                          [id |-> Num(<<"2">>), name |-> Text(<<" ">>)]>>)>>]

FileB ==
    [name |-> [stem |-> "b", ext |-> "xlsx"],
     tables |-> <<Table(<<"id", "email">>, [c \in {"id", "email"} |->
                            IF c = "id" THEN "float64" ELSE "object"],
                        <<[id |-> Num(<<"3">>), email |-> Text(<<"T", "e", "s", "t">>)]>>),
                  EmptyTable,
                  Table(<<"id">>, [c \in {"id"} |-> "float64"],
                        <<[id |-> Num(<<"4">>)]>>)>>]

FileC ==
    [name |-> [stem |-> "C", ext |-> "CSV"],
     tables |-> <<Table(<<"id", "name">>, [c \in {"id", "name"} |->
                            IF c = "id" THEN "float64" ELSE "object"],
                        <<[id |-> Num(<<"1">>), name |-> Text(<<"a">>)]>>)>>]

FileE == [name |-> [stem |-> "e", ext |-> "txt"], tables |-> <<>>]

Catalogue == {FileA, FileB, FileC, FileE}

\* os.listdir: any order of any of the files, each at most once.
Listings ==
    {l \in UNION {[1..n -> Catalogue] : n \in 0..MaxFiles} :
        \A j, k \in 1..Len(l) : l[j] = l[k] => j = k}

\* Patterns of the form <stem>.<ext>, either part may be "*".
Patterns == {None, Some([stem |-> "*", ext |-> "CSV"])}

\* fnmatch(f.lower(), file_pattern.lower())
fnmatch(name, pat) ==
    /\ Lower(pat.stem) \in {"*", Lower(name.stem)}
    /\ Lower(pat.ext) \in {"*", Lower(name.ext)}

\* all_files after the pattern filter (lines 20-25)
MatchingFiles(listing, pattern) ==
    IF pattern = None THEN listing
    ELSE Pick(listing, {k \in 1..Len(listing) : fnmatch(listing[k].name, pattern[1])})

\* f.lower().endswith('.csv') / f.lower().endswith(('.xlsx', '.xls'))
IsCsv(f) == Lower(f.name.ext) = "csv"

IsExcel(f) == Lower(f.name.ext) \in {"xlsx", "xls"}

\* DataFrame.empty
IsEmpty(tbl) == Len(tbl.rows) = 0 \/ Len(tbl.cols) = 0

\* A loaded table with where it came from: the file and the sheet's position.
Source(f, sheet) == [file |-> f.name, sheet |-> sheet, table |-> f.tables[sheet]]

\* The csv loop (lines 28-33): every csv file of all_files, in its order.
CsvSources(files) ==
    LET csv == Pick(files, {k \in 1..Len(files) : IsCsv(files[k])})
    IN  [k \in 1..Len(csv) |-> Source(csv[k], 1)]

\* The sheets of one workbook that are not empty, in workbook order (lines 41-45).
SheetSources(f) ==
    LET all == [s \in 1..Len(f.tables) |-> Source(f, s)]
    IN  Pick(all, {s \in 1..Len(all) : ~IsEmpty(all[s].table)})

\* The excel loop (lines 36-45).
ExcelSources(files) ==
    LET xl == Pick(files, {k \in 1..Len(files) : IsExcel(files[k])})
    IN  Flatten([k \in 1..Len(xl) |-> SheetSources(xl[k])])

\* dfs (lines 17-45): the csv files first, then the workbooks.
LoadedSourcesExcelFirst(files, ftype) ==
    (IF ftype \in {"excel", "both"} THEN ExcelSources(files) ELSE <<>>)
        \o (IF ftype \in {"csv", "both"} THEN CsvSources(files) ELSE <<>>)

LoadedSources(files, ftype) ==
    (IF ftype \in {"csv", "both"} THEN CsvSources(files) ELSE <<>>)
        \o (IF ftype \in {"excel", "both"} THEN ExcelSources(files) ELSE <<>>)

\* pd.concat(dfs, ignore_index=True): the union of the columns in the order they
\* first appear, the rows of every table in list order, NaN where a table lacks
\* a column.
ConcatCols(srcs) ==
    LET F[k \in 0..Len(srcs)] ==
            IF k = 0 THEN <<>>
            ELSE LET new == srcs[k].table.cols
                 IN  F[k - 1] \o Pick(new, {j \in 1..Len(new) : new[j] \notin Range(F[k - 1])})
    IN  F[Len(srcs)]

ConcatDtype(srcs, c) ==
    IF \E k \in 1..Len(srcs) :
          IF c \in Range(srcs[k].table.cols) THEN srcs[k].table.dtype[c] = "object"
          ELSE FALSE
        THEN "object" ELSE "float64"

Concat(srcs) ==
    LET cols == ConcatCols(srcs)
        Widen(t, k) == [c \in Range(cols) |->
                           IF c \in Range(t.cols) THEN t.rows[k][c] ELSE NAN]
    IN  Table(cols,
              [c \in Range(cols) |-> ConcatDtype(srcs, c)],
              Flatten([k \in 1..Len(srcs) |->
                          [r \in 1..Len(srcs[k].table.rows) |-> Widen(srcs[k].table, r)]]))

\* Where each row of the concatenated table came from.
ConcatOrigin(srcs) ==
    Flatten([k \in 1..Len(srcs) |->
                [r \in 1..Len(srcs[k].table.rows) |->
                    [file |-> srcs[k].file, sheet |-> srcs[k].sheet, row |-> r]]])

\* The transforms a caller passes.  remove_test_data is the module's own
\* (lines 133-136); the other two stand for caller code: one drops the first
\* row, one raises on a table of fewer than two rows.
TransformNames == {"remove_test_data", "drop_first", "need_two_rows"}

LowerChar(ch) == IF ch = "T" THEN "t" ELSE ch

ContainsTest(s) ==
    \E i \in 1..(Len(s) - 3) :
        [k \in 1..4 |-> LowerChar(s[i + k - 1])] = <<"t", "e", "s", "t">>

remove_test_data(tbl) ==
    TakeRows(tbl, {k \in 1..Len(tbl.rows) :
                     ~\E c \in Range(tbl.cols) : ContainsTest(AsStr(tbl.rows[k][c]))})

\* What calling a transform does: the table it returns, or the exception it
\* raises.  The exception is the transform's own.
Transform(name, tbl) ==
    CASE name = "remove_test_data" ->
            [ok |-> TRUE, df |-> remove_test_data(tbl), exc |-> None]
      [] name = "drop_first" ->
            [ok |-> TRUE, df |-> TakeRows(tbl, 2..Len(tbl.rows)), exc |-> None]
      [] name = "need_two_rows" ->
            IF Len(tbl.rows) < 2
              THEN [ok |-> FALSE, df |-> tbl,
                    exc |-> Some([type |-> "ValueError", message |-> "too few rows",
                                  transform |-> None])]
              ELSE [ok |-> TRUE, df |-> tbl, exc |-> None]

\* The table a transform is called with: df = transform(df) (line 62).
TransformInputStale == cleaned

TransformInput == df

\* What the caller of merge_and_clean_files gets when a transform raises: there
\* is no try/except around the call, the exception propagates as it is.
Surfaced(exc, name) == exc

\* to_excel for a path ending in .xlsx, to_csv otherwise (lines 66-69).
Written(path, table) ==
    [format |-> IF path.ext = "xlsx" THEN "xlsx" ELSE "csv", table |-> table]

\* listdir, the pattern filter, the two loading loops, the empty check.
load_files ==
    /\ mPc = "start"
    /\ LET srcs == LoadedSources(MatchingFiles(all_files, file_pattern), file_type)
       IN  /\ dfs' = srcs
           /\ IF srcs = <<>>
                THEN /\ mPc' = "failed"
                     /\ mError' = Some([type |-> "FileNotFoundError",
                                        message |-> "No matching files found",
                                        transform |-> None])
                ELSE /\ mPc' = "loaded"
                     /\ UNCHANGED mError
    /\ UNCHANGED <<all_files, file_pattern, file_type, custom_transforms, skip_cleaning,
                   output_file, df, merged, rowSrc, cleaned, applied, outFile,
                   outFileBefore, notMergeVars>>

\* df = pd.concat(dfs, ignore_index=True)
concat ==
    /\ mPc = "loaded"
    /\ df' = Concat(dfs)
    /\ merged' = Concat(dfs)
    /\ rowSrc' = ConcatOrigin(dfs)
    /\ mPc' = "merged"
    /\ UNCHANGED <<all_files, file_pattern, file_type, custom_transforms, skip_cleaning,
                   output_file, dfs, cleaned, applied, outFile, outFileBefore, mError,
                   notMergeVars>>

\* if not skip_cleaning: df = clean_data(df)
clean ==
    /\ mPc = "merged"
    /\ LET out == IF skip_cleaning THEN df ELSE clean_data(df)
       IN  /\ df' = out
           /\ cleaned' = out
    /\ mPc' = "transforms"
    /\ UNCHANGED <<all_files, file_pattern, file_type, custom_transforms, skip_cleaning,
                   output_file, dfs, merged, rowSrc, applied, outFile, outFileBefore,
                   mError, notMergeVars>>

\* One iteration of the transform loop (lines 60-63).
apply_transform ==
    /\ mPc = "transforms"
    /\ Len(applied) < Len(custom_transforms)
    /\ LET name == custom_transforms[Len(applied) + 1]
           res == Transform(name, TransformInput)
       IN  /\ applied' = Append(applied, name)
           /\ IF res.ok
                THEN /\ df' = res.df
                     /\ UNCHANGED <<mPc, mError>>
                ELSE /\ mPc' = "failed"
                     /\ mError' = Some(Surfaced(res.exc[1], name))
                     /\ UNCHANGED df
    /\ UNCHANGED <<all_files, file_pattern, file_type, custom_transforms, skip_cleaning,
                   output_file, dfs, merged, rowSrc, cleaned, outFile, outFileBefore,
                   notMergeVars>>

\* The loop is over: write the result (lines 66-71).
save ==
    /\ mPc = "transforms"
    /\ Len(applied) = Len(custom_transforms)
    /\ outFile' = Some(Written(output_file, df))
    /\ mPc' = "done"
    /\ UNCHANGED <<all_files, file_pattern, file_type, custom_transforms, skip_cleaning,
                   output_file, dfs, df, merged, rowSrc, cleaned, applied, outFileBefore,
                   mError, notMergeVars>>

NextMerge ==
    \/ load_files
    \/ concat
    \/ clean
    \/ apply_transform
    \/ save

(***************************************************************************)
(* Specifications: one per path; the other paths' variables stay idle      *)
(***************************************************************************)
ApiIdle ==
    /\ AUTH_TOKEN = [i \in Instances |-> "s1"]
    /\ pages = <<<<>>>>
    /\ request = None
    /\ apiPc = [i \in Instances |-> "idle"]
    /\ items = [i \in Instances |-> <<>>]
    /\ lastKey = [i \in Instances |-> None]
    /\ storeCalls = [i \in Instances |-> <<>>]
    /\ response = [i \in Instances |-> NoResponse]

UpIdle ==
    /\ file = [ext |-> "csv", columns |-> {"val"}, rows |-> <<>>]
    /\ remoteExists = FALSE
    /\ existedAtCheck = None
    /\ selfTable = FALSE
    /\ upPc = "idle"
    /\ trace = <<>>
    /\ rowIdx = 0
    /\ uploaded_count = 0
    /\ skipped = <<>>
    /\ buffer = <<>>
    /\ submitted = <<>>
    /\ written = <<>>
    /\ storeReqs = <<>>
    /\ reported = None

CleanIdle ==
    /\ cIn = EmptyTable
    /\ cOnce = EmptyTable
    /\ cTwice = EmptyTable
    /\ cPc = "idle"

MergeIdle ==
    /\ all_files = <<>>
    /\ file_pattern = None
    /\ file_type = "excel"
    /\ custom_transforms = <<>>
    /\ skip_cleaning = FALSE
    /\ output_file = [stem |-> "merged_cleaned", ext |-> "xlsx"]
    /\ mPc = "idle"
    /\ dfs = <<>>
    /\ df = EmptyTable
    /\ merged = EmptyTable
    /\ rowSrc = <<>>
    /\ cleaned = EmptyTable
    /\ applied = <<>>
    /\ outFile = None
    /\ outFileBefore = None
    /\ mError = None

InitApi ==
    /\ UpIdle
    /\ CleanIdle
    /\ MergeIdle
    /\ AUTH_TOKEN \in [Instances -> Secrets]
    /\ pages \in {PagesOf(sz) : sz \in PageSizes}
    /\ request = None
    /\ apiPc = [i \in Instances |-> "idle"]
    /\ items = [i \in Instances |-> <<>>]
    /\ lastKey = [i \in Instances |-> None]
    /\ storeCalls = [i \in Instances |-> <<>>]
    /\ response = [i \in Instances |-> NoResponse]

SpecApi == InitApi /\ [][NextApi]_vars

InitUpload ==
    /\ ApiIdle
    /\ CleanIdle
    /\ MergeIdle
    /\ file \in Files
    /\ remoteExists \in BOOLEAN
    /\ existedAtCheck = None
    /\ selfTable = FALSE
    /\ upPc = "connect"
    /\ trace = <<>>
    /\ rowIdx = 0
    /\ uploaded_count = 0
    /\ skipped = <<>>
    /\ buffer = <<>>
    /\ submitted = <<>>
    /\ written = <<>>
    /\ storeReqs = <<>>
    /\ reported = None

SpecUpload == InitUpload /\ [][NextUpload]_vars

InitClean ==
    /\ ApiIdle
    /\ UpIdle
    /\ MergeIdle
    /\ cIn \in NarrowTables \cup WideTables
    /\ cOnce = EmptyTable
    /\ cTwice = EmptyTable
    /\ cPc = "in"

SpecClean == InitClean /\ [][NextClean]_vars

\* A file left by an earlier run.
OldFile ==
    [format |-> "xlsx", table |-> Table(<<"old">>, [c \in {"old"} |-> "object"], <<>>)]

InitMerge ==
    /\ ApiIdle
    /\ UpIdle
    /\ CleanIdle
    /\ all_files \in Listings
    /\ file_pattern \in Patterns
    /\ file_type \in {"csv", "excel", "both"}
    /\ custom_transforms \in UNION {[1..n -> TransformNames] : n \in 0..MaxTransforms}
    /\ skip_cleaning \in BOOLEAN
    /\ output_file \in {[stem |-> "out", ext |-> "xlsx"], [stem |-> "out", ext |-> "csv"]}
    /\ mPc = "start"
    /\ dfs = <<>>
    /\ df = EmptyTable
    /\ merged = EmptyTable
    /\ rowSrc = <<>>
    /\ cleaned = EmptyTable
    /\ applied = <<>>
    /\ outFile \in {None, Some(OldFile)}
    /\ outFileBefore = outFile
    /\ mError = None

SpecMerge == InitMerge /\ [][NextMerge]_vars

(***************************************************************************)
(* Properties of the read API (SpecApi)                                    *)
(***************************************************************************)
\* C1: on /api/crm/data and /api/crm/data/<key>, a request whose Authorization
\* header is missing or is not exactly 'Bearer ' + the secret is answered 401
\* with an error body and causes no scan or get_item; a store call is made only
\* for a request whose token equals 'Bearer ' + the secret.
C1_AuthBeforeStore ==
    \A i \in Instances :
        /\ (/\ request # None
            /\ request[1].route \in {"all", "one"}
            /\ request[1].auth # Some(Bearer(AUTH_TOKEN[i])))
           => /\ storeCalls[i] = <<>>
              /\ apiPc[i] \in {"recv", "done"}
              /\ apiPc[i] = "done" =>
                    /\ response[i].status = 401
                    /\ response[i].kind = "error"
        /\ storeCalls[i] # <<>> =>
              /\ request[1].route \in {"all", "one"}
              /\ request[1].auth = Some(Bearer(AUTH_TOKEN[i]))

\* An instance answered 401 to a request that carried another instance's valid
\* token, and made no store call.
C1_Witness ==
    \E i \in Instances :
        /\ request # None
        /\ request[1].route = "all"
        /\ request[1].auth = Some(Bearer("s2"))
        /\ AUTH_TOKEN[i] = "s1"
        /\ apiPc[i] = "done"
        /\ response[i].status = 401
        /\ storeCalls[i] = <<>>

\* C2: an authenticated GET /api/crm/data scans page after page, each scan after
\* the first passing the previous page's LastEvaluatedKey, until a page has
\* none; the 200 response's data is the pages' items concatenated in page order
\* and count is the length of data.
C2_ScanAllPages ==
    \A i \in Instances :
        /\ \A k \in 1..Len(storeCalls[i]) :
              storeCalls[i][k].op = "scan" =>
                 IF k = 1 THEN storeCalls[i][k].start = None
                 ELSE /\ storeCalls[i][k].start # None
                      /\ storeCalls[i][k].start =
                            ScanPage(storeCalls[i][k - 1].start).LastEvaluatedKey
        /\ response[i].kind = "all" =>
              /\ response[i].status = 200
              /\ response[i].data = Flatten(pages)
              /\ response[i].count = Len(response[i].data)
              /\ Len(storeCalls[i]) = Len(pages)
              /\ ScanPage(storeCalls[i][Len(pages)].start).LastEvaluatedKey = None

\* A 200 response assembled from more than one non-empty page.
C2_Witness ==
    \E i \in Instances :
        /\ response[i].kind = "all"
        /\ Len(pages) >= 2
        /\ \A p \in 1..Len(pages) : Len(pages[p]) >= 1
        /\ response[i].count >= 2

\* C10: two instances that differ only in the secret answer a request that lacks
\* the correct token of either with the same response, on every route.
C10_SecretNotDisclosed ==
    \A i, j \in Instances :
        (/\ request # None
         /\ apiPc[i] = "done"
         /\ apiPc[j] = "done"
         /\ request[1].auth # Some(Bearer(AUTH_TOKEN[i]))
         /\ request[1].auth # Some(Bearer(AUTH_TOKEN[j])))
        => response[i] = response[j]

(***************************************************************************)
(* Properties of the uploader (SpecUpload)                                 *)
(***************************************************************************)
KeyIsNull(k) ==
    IF primary_key_column \notin DOMAIN file.rows[k] THEN TRUE
    ELSE file.rows[k][primary_key_column].t = "nan"

RECURSIVE Select(_, _, _)
\* The row indices from k to n whose key is null (or is not), in order.
Select(k, n, null) ==
    IF k > n THEN <<>>
    ELSE (IF KeyIsNull(k) = null THEN <<k>> ELSE <<>>) \o Select(k + 1, n, null)

\* C3: a row whose key cell is null or missing is never submitted; at the end
\* every other row was submitted exactly once, in order, the rows logged as
\* skipped are the null-key rows, and the reported count is the number of loaded
\* rows minus the number of skipped rows.
C3_SkipAndCount ==
    /\ \A k \in 1..Len(submitted) : ~KeyIsNull(submitted[k])
    /\ \A k, l \in 1..Len(submitted) : submitted[k] = submitted[l] => k = l
    /\ upPc = "done" =>
          /\ skipped = Select(1, Len(file.rows), TRUE)
          /\ submitted = Select(1, Len(file.rows), FALSE)
          /\ written = submitted
          /\ reported = Some(Len(file.rows) - Len(skipped))

\* A finished run that skipped a row and submitted a row after it.
C3_Witness ==
    /\ upPc = "done"
    /\ \E k \in 1..Len(skipped), l \in 1..Len(submitted) : skipped[k] < submitted[l]
    /\ reported = Some(Len(file.rows) - 1)

Chain == <<"START", "VALIDATED", "TABLE_READY", "UPLOADING", "DONE">>

IsPrefix(s, t) == Len(s) <= Len(t) /\ \A k \in 1..Len(s) : s[k] = t[k]

\* C4: the states of a run are entered in the order START, VALIDATED,
\* TABLE_READY, UPLOADING, DONE; a create-table request is sent only in
\* VALIDATED, for a file that has the key column; rows are sent only in
\* UPLOADING, to a table that exists and that the run holds a handle of; ERROR is
\* the last state of a run that enters it: no request is sent from it and DONE
\* does not follow it.
C4_StateOrder ==
    /\ LET n == Len(trace)
           core == IF n > 0 /\ trace[n] = "ERROR" THEN SubSeq(trace, 1, n - 1) ELSE trace
       IN  IsPrefix(core, Chain)
    /\ \A k \in 1..Len(storeReqs) :
          /\ storeReqs[k].op = "create_table" =>
                /\ storeReqs[k].state = "VALIDATED"
                /\ primary_key_column \in file.columns
          /\ storeReqs[k].op = "batch_write_item" =>
                /\ storeReqs[k].state = "UPLOADING"
                /\ storeReqs[k].tableExists
                /\ selfTable
          /\ storeReqs[k].state \notin {"ERROR", "DONE"}
    /\ written # <<>> => remoteExists
    /\ upPc = "error" <=> (trace # <<>> /\ trace[Len(trace)] = "ERROR")
    /\ upPc = "done" <=> trace = Chain

\* A run that created the table, waited for it and finished uploading.
C4_Witness ==
    /\ upPc = "done"
    /\ \E k \in 1..Len(storeReqs) : storeReqs[k].op = "create_table"
    /\ \E k \in 1..Len(storeReqs) : storeReqs[k].op = "wait_until_exists"
    /\ written # <<>>

\* C5: a run sends at most one create-table request, and only if the remote
\* table was absent when its existence was checked, whatever the outcome of the
\* check.
C5_CreateOnlyWhenAbsent ==
    /\ Cardinality({k \in 1..Len(storeReqs) : storeReqs[k].op = "create_table"}) <= 1
    /\ \A k \in 1..Len(storeReqs) :
          storeReqs[k].op = "create_table" => existedAtCheck = Some(FALSE)

(***************************************************************************)
(* Properties of the cleaner (SpecClean)                                   *)
(***************************************************************************)
\* Two tables are the same: the same columns in the same order and the same
\* rows in the same order, one missing value being as good as another.
SameTable(a, b) ==
    /\ a.cols = b.cols
    /\ Len(a.rows) = Len(b.rows)
    /\ \A k \in 1..Len(a.rows) : \A c \in Range(a.cols) :
          IF isna(a.rows[k][c]) THEN isna(b.rows[k][c])
          ELSE a.rows[k][c] = b.rows[k][c]

\* C6: the Cleaner is idempotent: run on its own output it removes no row and no
\* column and changes no cell.
C6_CleanerIdempotent ==
    cPc = "twice" => SameTable(cTwice, cOnce)

(***************************************************************************)
(* Properties of the merge (SpecMerge)                                     *)
(***************************************************************************)
\* The position of a file in the directory listing.
FilePos(name) == CHOOSE k \in 1..Len(all_files) : all_files[k].name = name

IsCsvName(name) == Lower(name.ext) = "csv"

Merged == mPc \in {"merged", "transforms", "failed", "done"} /\ rowSrc # <<>>

\* Row p and row q of the merged table come from the same file, p from an
\* earlier sheet or from an earlier row of the same sheet.
EarlierInFile(p, q) ==
    /\ rowSrc[p].file = rowSrc[q].file
    /\ \/ rowSrc[p].sheet < rowSrc[q].sheet
       \/ rowSrc[p].sheet = rowSrc[q].sheet /\ rowSrc[p].row < rowSrc[q].row

\* The sheet positions and the row positions that occur in the catalogue.
SheetIndices == UNION {1..Len(f.tables) : f \in Catalogue}

RowIndices == UNION {UNION {1..Len(f.tables[sh].rows) : sh \in 1..Len(f.tables)} : f \in Catalogue}

\* The rows the selector and the pattern ask for: <<file position, sheet, row>>.
ExpectedRows ==
    {<<k, sh, r>> \in (1..Len(all_files)) \X SheetIndices \X RowIndices :
        /\ IF file_pattern = None THEN TRUE
           ELSE fnmatch(all_files[k].name, file_pattern[1])
        /\ \/ file_type \in {"csv", "both"} /\ IsCsvName(all_files[k].name)
           \/ file_type \in {"excel", "both"} /\ ~IsCsvName(all_files[k].name)
        /\ sh <= Len(all_files[k].tables)
        /\ IF sh <= Len(all_files[k].tables)
             THEN r <= Len(all_files[k].tables[sh].rows) ELSE FALSE}

\* Each merged row holds its source row's cells, and NaN in the other columns.
RowsCarried ==
    /\ Len(merged.rows) = Len(rowSrc)
    /\ \A p \in 1..Len(rowSrc) :
          LET src == all_files[FilePos(rowSrc[p].file)].tables[rowSrc[p].sheet]
          IN  \A c \in Range(merged.cols) :
                  merged.rows[p][c] =
                      IF c \in Range(src.cols) THEN src.rows[rowSrc[p].row][c] ELSE NAN

\* C7 as stated: the merged rows are the sources' rows with the files in
\* directory-listing order, whatever the selector: a row of a file listed
\* earlier precedes every row of a file listed later.
C7_ListingOrder ==
    Merged =>
        \A p, q \in 1..Len(rowSrc) :
            FilePos(rowSrc[p].file) < FilePos(rowSrc[q].file) => p < q

\* C7 as amended: the merged rows are exactly the selected sources' rows; files
\* of the same kind are in directory-listing order, sheets in workbook order and
\* rows in file order, and every row of a csv file precedes every row of a
\* workbook.
C7_KindThenListingOrder ==
    Merged =>
        /\ {<<FilePos(rowSrc[p].file), rowSrc[p].sheet, rowSrc[p].row>> :
                p \in 1..Len(rowSrc)} = ExpectedRows
        /\ Cardinality(ExpectedRows) = Len(rowSrc)
        /\ RowsCarried
        /\ \A p, q \in 1..Len(rowSrc) :
              /\ EarlierInFile(p, q) => p < q
              /\ (/\ IsCsvName(rowSrc[p].file) = IsCsvName(rowSrc[q].file)
                  /\ FilePos(rowSrc[p].file) < FilePos(rowSrc[q].file)) => p < q
              /\ (IsCsvName(rowSrc[p].file) /\ ~IsCsvName(rowSrc[q].file)) => p < q

\* A merge of both kinds where a workbook is listed before a csv file and the
\* workbook's two sheets and the csv file's rows are all in the merged table.
C7_Witness ==
    /\ Merged
    /\ file_type = "both"
    /\ \E p, q \in 1..Len(rowSrc) :
          /\ IsCsvName(rowSrc[p].file)
          /\ ~IsCsvName(rowSrc[q].file)
          /\ FilePos(rowSrc[q].file) < FilePos(rowSrc[p].file)
          /\ rowSrc[q].sheet = 3
          /\ p < q

RECURSIVE ApplyAll(_, _)
\* The transforms of a list applied in list order, each to the previous output.
ApplyAll(names, tbl) ==
    IF names = <<>> THEN tbl
    ELSE ApplyAll(Tail(names), Transform(Head(names), tbl).df)

\* The k-th transform of the list succeeds on the output of those before it.
SucceedsAt(k) ==
    Transform(custom_transforms[k],
              ApplyAll(SubSeq(custom_transforms, 1, k - 1), cleaned)).ok

\* C8: the transforms are called in list order, each with the previous one's
\* output; when one fails no later one is called and the output file is as it
\* was before the call (absent or unchanged); the output file is written only
\* when every transform of the list succeeded.
C8_TransformsInOrder ==
    /\ IsPrefix(applied, custom_transforms)
    /\ mPc \in {"transforms", "done"} =>
          /\ df = ApplyAll(applied, cleaned)
          /\ \A k \in 1..Len(applied) : SucceedsAt(k)
    /\ mPc = "failed" =>
          /\ outFile = outFileBefore
          /\ mError # None
          /\ applied # <<>> =>
                /\ ~SucceedsAt(Len(applied))
                /\ \A k \in 1..(Len(applied) - 1) : SucceedsAt(k)
    /\ outFile # outFileBefore =>
          /\ mPc = "done"
          /\ mError = None
          /\ applied = custom_transforms
          /\ \A k \in 1..Len(custom_transforms) : SucceedsAt(k)
          /\ outFile = Some(Written(output_file, ApplyAll(custom_transforms, cleaned)))
    /\ mPc = "done" => outFile # outFileBefore

\* The first of two transforms failed: the second was not called and the file
\* of an earlier run is untouched.
C8_Witness ==
    /\ mPc = "failed"
    /\ Len(custom_transforms) = 2
    /\ Len(applied) = 1
    /\ outFileBefore # None
    /\ outFile = outFileBefore

\* C9: when a transform fails, the error the caller gets is a pipeline failure
\* that names the failing transform, at every position of the list.
C9_ErrorNamesTransform ==
    (mPc = "failed" /\ applied # <<>>) =>
        /\ mError[1].type = "PipelineFailure"
        /\ mError[1].transform = Some(applied[Len(applied)])

====
